---------------------------- MODULE Spec2Model ----------------------------
(***************************************************************************)
(* Model of the manufacturing-support chatbot backend:                     *)
(*   backend/chatbot.py   is_technical_query, stream_response              *)
(*   backend/retrieval.py create_or_load_faiss, _clean_value,              *)
(*                        _extract_part_numbers, retrieve_semantic         *)
(*   backend/main.py      startup_event, chat                              *)
(* Python strings are sequences of one-character strings, so that lower(), *)
(* strip(), split(), the `in` operator and the regular expressions are     *)
(* computed character by character.                                        *)
(***************************************************************************)
EXTENDS Integers, Sequences, FiniteSets, TLC

VARIABLES
    query,        \* text handed to is_technical_query / _extract_part_numbers
    technical,    \* "unset", or the classifier's verdict "Technical" / "Casual"
    patterns,     \* list returned by _extract_part_numbers
    extracted,    \* TRUE once _extract_part_numbers has returned
    store,        \* the FAISS index searched by retrieve_semantic: its documents
    top_n,        \* retrieve_semantic's parameter top_n
    candidates,   \* what vectorstore.similarity_search returned
    results,      \* retrieve_semantic's local `results` when aggregation starts
    agg,          \* the dictionary retrieve_semantic returned
    retrieved,    \* TRUE once retrieve_semantic has returned
    csv_exists,       \* CSV_PATH.exists()
    df,               \* the records load_csv_to_df returns, one document each
    artifact_found,   \* the index artifact at VSTORE_DIR when the process started
    persisted,        \* the index artifact at VSTORE_DIR now
    startup,          \* position of startup_event
    vectorstore,      \* create_or_load_faiss's local `vectorstore`
    batch_i,          \* create_or_load_faiss's loop variable i
    embed_failed_at,  \* number of the batch whose embedding failed, 0 if none did
    saved,            \* TRUE once save_local has written the index
    app_vectorstore,  \* app.state.vectorstore
    reqs              \* the /chat requests

textVars == <<query, technical, patterns, extracted>>

retrievalVars == <<store, top_n, candidates, results, agg, retrieved>>

serverVars == <<csv_exists, df, artifact_found, persisted, startup, vectorstore,
                batch_i, embed_failed_at, saved, app_vectorstore, reqs>>

vars == <<query, technical, patterns, extracted,
          store, top_n, candidates, results, agg, retrieved,
          csv_exists, df, artifact_found, persisted, startup, vectorstore,
          batch_i, embed_failed_at, saved, app_vectorstore, reqs>>

-----------------------------------------------------------------------------
(* Characters and Python string primitives                                 *)

LOWER ==
    <<"a","b","c","d","e","f","g","h","i","j","k","l","m","n","o","p","q","r","s","t","u","v","w","x","y","z">>

UPPER ==
    <<"A","B","C","D","E","F","G","H","I","J","K","L","M","N","O","P","Q","R","S","T","U","V","W","X","Y","Z">>

DIGITS ==
    <<"0","1","2","3","4","5","6","7","8","9">>

Range(s) ==
    { s[i] : i \in DOMAIN s }

\* \d of the re module
IsDigit(c) ==
    c \in Range(DIGITS)

\* \w of the re module: letters, digits and the underscore
IsWord(c) ==
    c \in Range(LOWER) \cup Range(UPPER) \cup Range(DIGITS) \cup {"_"}

\* \s of the re module, and the separators of str.split() and str.strip()
IsSpace(c) ==
    c \in {" ", "\t", "\n", "\r"}

\* str.lower() on one character
LowerChar(c) ==
    IF c \in Range(UPPER)
    THEN LOWER[CHOOSE i \in DOMAIN UPPER : UPPER[i] = c]
    ELSE c

\* str.lower()
Lower(s) ==
    [i \in DOMAIN s |-> LowerChar(s[i])]

\* needle in hay
Contains(hay, needle) ==
    \E p \in 0..(Len(hay) - Len(needle)) :
        \A j \in 1..Len(needle) : hay[p + j] = needle[j]

\* str.strip()
Strip(s) ==
    LET keep == { i \in DOMAIN s : ~IsSpace(s[i]) }
    IN  IF keep = {} THEN <<>>
        ELSE LET first == CHOOSE i \in keep : \A j \in keep : i <= j
                 last  == CHOOSE i \in keep : \A j \in keep : j <= i
             IN  SubSeq(s, first, last)

RECURSIVE SplitFrom(_, _)
\* str.split() with no argument: the whitespace-delimited tokens of s from
\* index i on
SplitFrom(s, i) ==
    IF i > Len(s) THEN <<>>
    ELSE IF IsSpace(s[i]) THEN SplitFrom(s, i + 1)
    ELSE LET stops == { j \in i..Len(s) : IsSpace(s[j]) }
             stop  == IF stops = {} THEN Len(s) + 1
                      ELSE CHOOSE j \in stops : \A k \in stops : j <= k
         IN  <<SubSeq(s, i, stop - 1)>> \o SplitFrom(s, stop)

Split(s) ==
    SplitFrom(s, 1)

-----------------------------------------------------------------------------
(* The regular expressions.  Offsets p are 0-based "between characters"    *)
(* positions as in re: p is before s[p+1].                                 *)

WordAt(s, i) ==
    i >= 1 /\ i <= Len(s) /\ IsWord(s[i])

\* \b at offset p
AtBoundary(s, p) ==
    WordAt(s, p) # WordAt(s, p + 1)

DigitsFrom(s, p, n) ==
    p + n <= Len(s) /\ \A i \in (p + 1)..(p + n) : IsDigit(s[i])

\* (?:-\d{3})? at offset p
SuffixAt(s, p) ==
    p + 4 <= Len(s) /\ s[p + 1] = "-" /\ DigitsFrom(s, p + 1, 3)

\* One alternative of the backtracking search: \d{n} exactly, then the greedy
\* optional group, then \b.  The end offset of the match, or -1.
TryLen(s, p, n, withSuffix) ==
    IF ~DigitsFrom(s, p, n) THEN -1
    ELSE IF withSuffix /\ SuffixAt(s, p + n) /\ AtBoundary(s, p + n + 4) THEN p + n + 4
    ELSE IF AtBoundary(s, p + n) THEN p + n
    ELSE -1

RECURSIVE TryFrom(_, _, _, _, _)
\* \d{lo,n} is greedy: the longest digit count is tried first
TryFrom(s, p, n, lo, withSuffix) ==
    IF n < lo THEN -1
    ELSE LET e == TryLen(s, p, n, withSuffix)
         IN  IF e # -1 THEN e ELSE TryFrom(s, p, n - 1, lo, withSuffix)

\* \b\d{lo,hi}(?:-\d{3})?\b tried at offset p
MatchCodeAt(s, p, lo, hi, withSuffix) ==
    IF AtBoundary(s, p) THEN TryFrom(s, p, hi, lo, withSuffix) ELSE -1

\* re.search(r'\b\d{3,10}(?:-\d{3})?\b', s)
SearchCode(s) ==
    \E p \in 0..Len(s) : MatchCodeAt(s, p, 3, 10, TRUE) # -1

STATION ==
    <<"s","t","a","t","i","o","n">>

\* re.search(r'station\s*\d+', s, re.IGNORECASE)
SearchStation(s) ==
    \E p \in 0..(Len(s) - 7) :
        /\ Lower(SubSeq(s, p + 1, p + 7)) = STATION
        /\ \E d \in (p + 8)..Len(s) :
              /\ IsDigit(s[d])
              /\ \A i \in (p + 8)..(d - 1) : IsSpace(s[i])

RECURSIVE FindAllFrom(_, _, _, _, _)
\* re.findall: scan left to right, resume after each match
FindAllFrom(s, p, lo, hi, withSuffix) ==
    IF p >= Len(s) THEN <<>>
    ELSE LET e == MatchCodeAt(s, p, lo, hi, withSuffix)
         IN  IF e # -1
             THEN <<SubSeq(s, p + 1, e)>> \o FindAllFrom(s, e, lo, hi, withSuffix)
             ELSE FindAllFrom(s, p + 1, lo, hi, withSuffix)

-----------------------------------------------------------------------------
(* chatbot.py: the query classifier                                        *)

TECHNICAL_KEYWORDS ==
    { <<"f","a","i","l","u","r","e">>,
      <<"f","a","i","l">>,
      <<"e","r","r","o","r">>,
      <<"d","e","f","e","c","t">>,
      <<"i","s","s","u","e">>,
      <<"p","r","o","b","l","e","m">>,
      <<"b","r","o","k","e","n">>,
      <<"l","e","a","k">>,
      <<"t","e","s","t">>,
      <<"s","t","a","t","i","o","n">>,
      <<"c","o","d","e">>,
      <<"s","e","r","i","a","l">>,
      <<"p","a","r","t">>,
      <<"m","a","t","e","r","i","a","l">>,
      <<"a","c","t","i","o","n">>,
      <<"f","i","x">>,
      <<"r","e","p","a","i","r">>,
      <<"r","e","p","l","a","c","e">>,
      <<"m","a","l","f","u","n","c","t","i","o","n">>,
      <<"f","a","u","l","t">>,
      <<"o","v","e","r","h","e","a","t","i","n","g">>,
      <<"n","o","t"," ","w","o","r","k","i","n","g">>,
      <<"d","o","e","s","n","'","t"," ","w","o","r","k">>,
      <<"s","t","o","p","p","e","d">>,
      <<"d","i","a","g","n","o","s","t","i","c">>,
      <<"t","r","o","u","b","l","e","s","h","o","o","t">>,
      <<"d","e","b","u","g">>,
      <<"n","c","r">>,
      <<"d","u","p","l","i","c","a","t","e">>,
      <<"r","e","c","u","r","r","i","n","g">>,
      <<"r","e","o","c","c","u","r","r","i","n","g">>,
      <<"c","o","m","m","o","n">>,
      <<"f","r","e","q","u","e","n","t">>,
      <<"m","a","t","c","h">>,
      <<"u","s","i","n","g">> }

\* Mutant of is_technical_query: the keyword test reads the raw query, the
\* lower-casing is lost.
is_technical_query_raw(q) ==
    IF \E keyword \in TECHNICAL_KEYWORDS : Contains(q, keyword) THEN TRUE
    ELSE IF SearchCode(Lower(q)) THEN TRUE
    ELSE IF SearchStation(Lower(q)) THEN TRUE
    ELSE FALSE

\* Mutant of is_technical_query: the code pattern accepts 2-digit numbers.
is_technical_query_2digits(q) ==
    LET query_lower == Lower(q)
    IN  IF \E keyword \in TECHNICAL_KEYWORDS : Contains(query_lower, keyword) THEN TRUE
        ELSE IF \E p \in 0..Len(q) : MatchCodeAt(query_lower, p, 2, 10, TRUE) # -1 THEN TRUE
        ELSE IF SearchStation(query_lower) THEN TRUE
        ELSE FALSE

is_technical_query(q) ==
    LET query_lower == Lower(q)
    IN  IF \E keyword \in TECHNICAL_KEYWORDS : Contains(query_lower, keyword) THEN TRUE
        ELSE IF SearchCode(query_lower) THEN TRUE
        ELSE IF SearchStation(query_lower) THEN TRUE
        ELSE IF Len(Split(q)) < 3 THEN FALSE
        ELSE FALSE

-----------------------------------------------------------------------------
(* retrieval.py: the part-number extractor                                 *)

\* Mutant of _extract_part_numbers: the optional "-ddd" group is missing
\* from the pattern.
_extract_part_numbers_nosuffix(q) ==
    FindAllFrom(q, 0, 7, 10, FALSE)

\* re.findall(r'\b\d{7,10}(?:-\d{3})?\b', query)
_extract_part_numbers(q) ==
    FindAllFrom(q, 0, 7, 10, TRUE)

-----------------------------------------------------------------------------
(* retrieval.py: documents and their metadata                              *)
(* A Document is an index into the table of metadata records.  A metadata  *)
(* value is the text str() gives for it, or NA for None / NaN / NaT, the   *)
(* values pandas.isna accepts.                                             *)

NA ==
    <<"<NA>">>

P1 ==
    <<"1","0","0","0","3","9","3">>

P1_123 ==
    <<"1","0","0","0","3","9","3","-","1","2","3">>

P2 ==
    <<"1","2","3","1","2","3","1">>

\* five failure records: a clean one, one that repeats its codes with other
\* spellings, one with a second material, one with missing fields, an empty one
METADATA ==
    << [ part_number |-> P1, action_code |-> <<"A">>, failure_code |-> <<"F">>,
         stationnumber |-> <<"1","2">>, material_code |-> <<"M">>,
         material_desc |-> <<"s","e","a","l">>, partclass |-> <<"K">>,
         serialnumber |-> <<"S">>, date |-> <<"2","4">> ],
       [ part_number |-> P1_123, action_code |-> <<"B">>, failure_code |-> <<" ","F">>,
         stationnumber |-> <<"N","a","N">>, material_code |-> <<"M"," ">>,
         material_desc |-> <<"r","i","n","g">>, partclass |-> NA,
         serialnumber |-> <<"S">>, date |-> <<"2","3">> ],
       [ part_number |-> <<"9","9">>, action_code |-> <<"C">>, failure_code |-> <<"n","a","n">>,
         stationnumber |-> <<"7">>, material_code |-> <<"N">>,
         material_desc |-> NA, partclass |-> <<>>,
         serialnumber |-> <<"T">>, date |-> NA ],
       [ part_number |-> NA, action_code |-> <<"D">>, failure_code |-> <<"G">>,
         stationnumber |-> <<"1","2">>, material_code |-> <<>>,
         material_desc |-> <<"c","a","p">>, partclass |-> <<"K">>,
         serialnumber |-> <<" ","n","a","n">>, date |-> <<"2","5">> ],
       [ part_number |-> <<"n","a","n">>, action_code |-> NA, failure_code |-> <<>>,
         stationnumber |-> <<" ">>, material_code |-> NA,
         material_desc |-> NA, partclass |-> NA,
         serialnumber |-> <<"N","A","N">>, date |-> <<>> ] >>

\* serial number of the j-th record of a batch of units of part P1
SerialName(j) ==
    <<"U", DIGITS[(j \div 10) + 1], DIGITS[(j % 10) + 1]>>

\* doc.metadata
Metadata(doc) ==
    IF doc <= Len(METADATA) THEN METADATA[doc]
    ELSE [ METADATA[5] EXCEPT !.part_number = P1,
                              !.serialnumber = SerialName(doc - Len(METADATA)) ]

-----------------------------------------------------------------------------
(* retrieval.py: _clean_value and the helpers of retrieve_semantic         *)

NAN ==
    <<"n","a","n">>

N_A ==
    <<"N","/","A">>

\* Mutant of _clean_value: the 'nan' test is case-sensitive.
_clean_value_case(val) ==
    IF val = NA \/ val = NAN THEN <<>> ELSE Strip(val)

_clean_value(val) ==
    IF val = NA \/ Lower(val) = NAN THEN <<>> ELSE Strip(val)

TOP_N_DOCS == 30

TOP_K == 3

TOP_SERIALS == 10

TOP_STATIONS == 3

Prefix(s, n) ==
    SubSeq(s, 1, IF n < Len(s) THEN n ELSE Len(s))

\* search_k = top_n * 3 if mentioned_parts else top_n * 2
search_k(mentioned_parts, n) ==
    IF mentioned_parts # <<>> THEN n * 3 ELSE n * 2

\* vectorstore.similarity_search(query, k): the k documents nearest to the
\* query, fewer when the index holds fewer.  The index lists its documents
\* by decreasing similarity to the query.
similarity_search(vs, k) ==
    Prefix(vs, k)

\* Mutant of part_matches: the part number must be equal, not contained.
part_matches_equal(doc, mentioned_parts) ==
    LET doc_part == _clean_value(Metadata(doc).part_number)
    IN  \E i \in DOMAIN mentioned_parts : doc_part = mentioned_parts[i]

\* any(part in doc_part for part in mentioned_parts)
part_matches(doc, mentioned_parts) ==
    LET doc_part == _clean_value(Metadata(doc).part_number)
    IN  \E i \in DOMAIN mentioned_parts : Contains(doc_part, mentioned_parts[i])

\* Mutant of select_results: a filter that matches nothing leaves the
\* candidates untruncated.
select_results_untruncated(found, mentioned_parts, n) ==
    IF mentioned_parts # <<>>
    THEN LET Matches(doc) == part_matches(doc, mentioned_parts)
             filtered_results == SelectSeq(found, Matches)
         IN  IF filtered_results # <<>> THEN filtered_results ELSE found
    ELSE Prefix(found, n)

\* the part-number filter with its fallback, and the truncation to top_n
select_results(found, mentioned_parts, n) ==
    IF mentioned_parts # <<>>
    THEN LET Matches(doc) == part_matches(doc, mentioned_parts)
             filtered_results == SelectSeq(found, Matches)
         IN  IF filtered_results # <<>> THEN filtered_results ELSE Prefix(found, n)
    ELSE Prefix(found, n)

\* the cleaned values of one metadata field, one per document
Cleaned(docs, field) ==
    [i \in DOMAIN docs |-> _clean_value(Metadata(docs[i])[field])]

NonEmpty(v) ==
    v # <<>>

\* the list collected by the loop for one field: the non-empty cleaned values
Collected(docs, field) ==
    SelectSeq(Cleaned(docs, field), NonEmpty)

\* the distinct elements of xs in order of first appearance: the key order of
\* a Counter or of a dict filled from xs
FirstSeen(xs) ==
    LET IsFirst(i) == \A j \in 1..(i - 1) : xs[j] # xs[i]
        firsts     == SelectSeq([i \in DOMAIN xs |-> i], IsFirst)
    IN  [n \in DOMAIN firsts |-> xs[firsts[n]]]

Count(xs, x) ==
    Cardinality({ i \in DOMAIN xs : xs[i] = x })

\* Counter(xs).items(): (key, count) in insertion order
Counter(xs) ==
    LET keys == FirstSeen(xs)
    IN  [i \in DOMAIN keys |-> [key |-> keys[i], count |-> Count(xs, keys[i])]]

RECURSIVE InsertDesc(_, _)
\* x takes its place behind every item whose count is not smaller
InsertDesc(sorted, x) ==
    IF sorted = <<>> THEN <<x>>
    ELSE IF Head(sorted).count >= x.count
         THEN <<Head(sorted)>> \o InsertDesc(Tail(sorted), x)
         ELSE <<x>> \o sorted

RECURSIVE InsertDescBefore(_, _)
\* x takes its place before every item whose count is not greater
InsertDescBefore(sorted, x) ==
    IF sorted = <<>> THEN <<x>>
    ELSE IF Head(sorted).count > x.count
         THEN <<Head(sorted)>> \o InsertDescBefore(Tail(sorted), x)
         ELSE <<x>> \o sorted

RECURSIVE SortedDescUnstable(_)
\* Mutant of SortedDesc: sorted ascending and then reversed, which reverses
\* the items of equal count.
SortedDescUnstable(items) ==
    IF items = <<>> THEN <<>>
    ELSE InsertDescBefore(SortedDescUnstable(SubSeq(items, 1, Len(items) - 1)),
                          items[Len(items)])

RECURSIVE SortedDesc(_)
\* sorted(items, key=count, reverse=True), also the order of
\* Counter.most_common: descending count, stable
SortedDesc(items) ==
    IF items = <<>> THEN <<>>
    ELSE InsertDesc(SortedDesc(SubSeq(items, 1, Len(items) - 1)), items[Len(items)])

\* Counter.most_common(n)
most_common(counter, n) ==
    Prefix(SortedDesc(counter), n)

\* [{"code": code, "count": count} for code, count in counter.most_common(TOP_K)]
top_codes(values) ==
    LET common == most_common(Counter(values), TOP_K)
    IN  [i \in DOMAIN common |-> [code |-> common[i].key, count |-> common[i].count]]

\* sorted(material_details.values(), key=count, reverse=True)[:TOP_K]
sorted_materials(docs) ==
    LET mat_codes == Cleaned(docs, "material_code")
        mat_descs == Cleaned(docs, "material_desc")
        classes   == Cleaned(docs, "partclass")
        keys      == FirstSeen(SelectSeq(mat_codes, NonEmpty))
        First(k)  == CHOOSE i \in DOMAIN docs :
                         mat_codes[i] = k /\ \A j \in 1..(i - 1) : mat_codes[j] # k
        material_details ==
            [i \in DOMAIN keys |->
                [ code        |-> keys[i],
                  description |-> IF mat_descs[First(keys[i])] # <<>>
                                  THEN mat_descs[First(keys[i])] ELSE N_A,
                  part_class  |-> IF classes[First(keys[i])] # <<>>
                                  THEN classes[First(keys[i])] ELSE N_A,
                  count       |-> Count(mat_codes, keys[i]) ]]
    IN  Prefix(SortedDesc(material_details), TOP_K)

IsRecurring(item) ==
    item.count > 1

\* Mutant of recurring_serials: a serial seen once counts as recurring.
recurring_serials_once(serials) ==
    LET common == most_common(Counter(serials), TOP_SERIALS)
    IN  [i \in DOMAIN common |-> [serial |-> common[i].key, count |-> common[i].count]]

\* [{"serial": s, "count": c} for s, c in serial_counter.most_common(10) if c > 1]
recurring_serials(serials) ==
    LET common == SelectSeq(most_common(Counter(serials), TOP_SERIALS), IsRecurring)
    IN  [i \in DOMAIN common |-> [serial |-> common[i].key, count |-> common[i].count]]

\* [{"station": s, "count": c} for s, c in station_counter.most_common(3)]
top_stations(stations) ==
    LET common == most_common(Counter(stations), TOP_STATIONS)
    IN  [i \in DOMAIN common |-> [station |-> common[i].key, count |-> common[i].count]]

\* the characters of the model in code-point order
ASCII ==
    <<" ", "'", "-", "/">> \o DIGITS \o <<":", "<">> \o UPPER \o <<"_">> \o LOWER

Ord(c) ==
    CHOOSE i \in DOMAIN ASCII : ASCII[i] = c

RECURSIVE StrLess(_, _)
\* a < b on Python strings
StrLess(a, b) ==
    IF b = <<>> THEN FALSE
    ELSE IF a = <<>> THEN TRUE
    ELSE IF Head(a) = Head(b) THEN StrLess(Tail(a), Tail(b))
    ELSE Ord(Head(a)) < Ord(Head(b))

\* min(dates)
MinStr(xs) ==
    CHOOSE x \in Range(xs) : \A y \in Range(xs) : x = y \/ StrLess(x, y)

\* max(dates)
MaxStr(xs) ==
    CHOOSE x \in Range(xs) : \A y \in Range(xs) : x = y \/ StrLess(y, x)

\* the dictionary returned when the search found nothing
no_results(q) ==
    [ message           |-> "No relevant historical data found.",
      query_context     |-> q,
      action_codes      |-> <<>>,
      materials         |-> <<>>,
      recurring_serials |-> <<>>,
      failure_codes     |-> <<>> ]

\* the loop over the results, the counters and the returned dictionary
aggregate(q, mentioned_parts, docs) ==
    LET top_actions  == top_codes(Collected(docs, "action_code"))
        top_failures == top_codes(Collected(docs, "failure_code"))
        materials    == sorted_materials(docs)
        recurring    == recurring_serials(Collected(docs, "serialnumber"))
        dates        == Collected(docs, "date")
    IN  [ retrieved_count   |-> Len(docs),
          query_context     |-> q,
          mentioned_parts   |-> mentioned_parts,
          action_codes      |-> IF top_actions # <<>> THEN top_actions
                                ELSE <<[note |-> "No action codes found"]>>,
          failure_codes     |-> IF top_failures # <<>> THEN top_failures
                                ELSE <<[note |-> "No failure codes found"]>>,
          materials         |-> IF materials # <<>> THEN materials
                                ELSE <<[note |-> "No materials recorded"]>>,
          recurring_serials |-> IF recurring # <<>> THEN recurring
                                ELSE <<[note |-> "No recurring serials detected"]>>,
          common_stations   |-> top_stations(Collected(docs, "stationnumber")),
          date_range        |-> [ earliest |-> IF dates # <<>> THEN MinStr(dates) ELSE N_A,
                                  latest   |-> IF dates # <<>> THEN MaxStr(dates) ELSE N_A ] ]

retrieve_semantic(q, vs, n) ==
    LET mentioned_parts == _extract_part_numbers(q)
        found == similarity_search(vs, search_k(mentioned_parts, n))
    IN  IF found = <<>> THEN no_results(q)
        ELSE aggregate(q, mentioned_parts, select_results(found, mentioned_parts, n))

-----------------------------------------------------------------------------
(* chatbot.py: format_context_for_llm and stream_response                  *)

\* Python's None where a dictionary is expected
PyNone ==
    [none |-> TRUE]

\* bool(agg): None and the empty dictionary are false
Truthy(d) ==
    d # PyNone /\ DOMAIN d # {}

\* agg.get(key, default)
Get(d, key, default) ==
    IF key \in DOMAIN d THEN d[key] ELSE default

\* `items and isinstance(items[0], dict) and key in items[0]`
HasEntries(items, key) ==
    items # <<>> /\ key \in DOMAIN items[1]

\* The sections of the text format_context_for_llm builds, in its order; a
\* section the function leaves out is the empty list.  No dictionary built by
\* retrieve_semantic has 'database_stats', so that block adds nothing.
format_context_for_llm(d) ==
    LET action_codes  == Get(d, "action_codes", <<>>)
        failure_codes == Get(d, "failure_codes", <<>>)
        materials     == Get(d, "materials", <<>>)
        recurring     == Get(d, "recurring_serials", <<>>)
        stations      == Get(d, "common_stations", <<>>)
    IN  [ user_query    |-> Get(d, "query_context", N_A),
          analyzed      |-> Get(d, "retrieved_count", 0),
          action_codes  |-> IF HasEntries(action_codes, "code") THEN action_codes
                            ELSE <<"No action codes found">>,
          failure_codes |-> IF HasEntries(failure_codes, "code") THEN failure_codes
                            ELSE <<>>,
          materials     |-> IF HasEntries(materials, "code") THEN materials
                            ELSE <<"No materials recorded">>,
          recurring     |-> IF HasEntries(recurring, "serial") THEN recurring ELSE <<>>,
          stations      |-> stations,
          date_range    |-> IF "date_range" \in DOMAIN d
                            THEN <<d.date_range.earliest, d.date_range.latest>>
                            ELSE <<>> ]

\* Mutant of choose_prompt: a technical query always gets the data-analysis
\* prompt.
choose_prompt_always(q, d) ==
    IF is_technical_query(q) THEN "analysis" ELSE "casual"

\* the prompt stream_response builds: data analysis, request for details, or
\* casual conversation
choose_prompt(q, d) ==
    LET is_technical == is_technical_query(q)
    IN  IF is_technical /\ Truthy(d) /\ Get(d, "retrieved_count", 0) > 0 THEN "analysis"
        ELSE IF is_technical /\ (~Truthy(d) \/ Get(d, "retrieved_count", 0) = 0)
             THEN "clarify"
        ELSE "casual"

-----------------------------------------------------------------------------
(* main.py and create_or_load_faiss: startup and the /chat handler         *)

batch_size == 100

MaxBatches == 2

MaxRequests == 1

MaxTokens == 1

\* a FAISS index object, or None
FaissNone ==
    [set |-> FALSE, docs |-> <<>>]

FAISS(docs) ==
    [set |-> TRUE, docs |-> docs]

NoArtifact ==
    [exists |-> FALSE, docs |-> <<>>]

Artifact(docs) ==
    [exists |-> TRUE, docs |-> docs]

\* a corpus of n records
Corpus(n) ==
    [i \in 1..n |-> ((i - 1) % Len(METADATA)) + 1]

\* corpora that fill 0 batches, or end on or just after a batch boundary
CorpusSizes ==
    {0} \cup { (b - 1) * batch_size + 1 : b \in 1..MaxBatches }
        \cup { b * batch_size : b \in 1..MaxBatches }

\* what VSTORE_DIR may hold at startup: nothing, an index of no documents, or
\* an index saved for an earlier corpus
Artifacts ==
    { NoArtifact, Artifact(<<>>), Artifact(Corpus(2)) }

ChatQueries ==
    { <<"h","i">>,
      <<"f","i","x">>,
      <<"f","i","x"," ">> \o P1 }

IdleRequest ==
    [ pc |-> "idle", query |-> <<>>, ready_on_arrival |-> FALSE,
      is_technical |-> "unset", candidates |-> <<>>, agg |-> PyNone,
      status |-> 0, prompt |-> "none", context |-> PyNone, tokens |-> 0,
      steps |-> <<>> ]

ServerIdle ==
    /\ csv_exists = FALSE
    /\ df = <<>>
    /\ artifact_found = NoArtifact
    /\ persisted = NoArtifact
    /\ startup = "pending"
    /\ vectorstore = FaissNone
    /\ batch_i = 0
    /\ embed_failed_at = 0
    /\ saved = FALSE
    /\ app_vectorstore = FaissNone
    /\ reqs = <<>>

\* if not CSV_PATH.exists(): raise FileNotFoundError
StartupCheckCsv ==
    /\ startup = "pending"
    /\ startup' = IF csv_exists THEN "csv_found" ELSE "failed"
    /\ UNCHANGED <<csv_exists, df, artifact_found, persisted, vectorstore, batch_i,
                   embed_failed_at, saved, app_vectorstore, reqs>>
    /\ UNCHANGED <<textVars, retrievalVars>>

\* load_csv_to_df and persist_to_sqlite; either may raise
StartupLoadData ==
    /\ startup = "csv_found"
    /\ \E ok \in BOOLEAN : startup' = IF ok THEN "data_loaded" ELSE "failed"
    /\ UNCHANGED <<csv_exists, df, artifact_found, persisted, vectorstore, batch_i,
                   embed_failed_at, saved, app_vectorstore, reqs>>
    /\ UNCHANGED <<textVars, retrievalVars>>

\* create_or_load_faiss: FAISS.load_local returns the persisted index, or
\* raises (nothing there, or unreadable) and the build starts
LoadIndex ==
    /\ startup = "data_loaded"
    /\ \E ok \in BOOLEAN :
          IF persisted.exists /\ ok
          THEN /\ vectorstore' = FAISS(persisted.docs)
               /\ startup' = "built"
          ELSE /\ vectorstore' = FaissNone
               /\ startup' = "building"
    /\ batch_i' = 0
    /\ UNCHANGED <<csv_exists, df, artifact_found, persisted, embed_failed_at, saved,
                   app_vectorstore, reqs>>
    /\ UNCHANGED <<textVars, retrievalVars>>

\* docs[i:i+batch_size]
Batch(docs, i) ==
    SubSeq(docs, i + 1, IF i + batch_size < Len(docs) THEN i + batch_size ELSE Len(docs))

\* one pass of the loop: FAISS.from_documents(batch) and merge_from
EmbedBatch ==
    /\ startup = "building"
    /\ batch_i < Len(df)
    /\ vectorstore' = IF ~vectorstore.set THEN FAISS(Batch(df, batch_i))
                      ELSE FAISS(vectorstore.docs \o Batch(df, batch_i))
    /\ batch_i' = batch_i + batch_size
    /\ UNCHANGED <<csv_exists, df, artifact_found, persisted, startup, embed_failed_at,
                   saved, app_vectorstore, reqs>>
    /\ UNCHANGED <<textVars, retrievalVars>>

\* Mutant of EmbedBatchFails: the build gives up on the failed batch and
\* persists and returns what it has merged so far.
EmbedBatchFails_partial ==
    /\ startup = "building"
    /\ batch_i < Len(df)
    /\ vectorstore.set
    /\ embed_failed_at' = (batch_i \div batch_size) + 1
    /\ persisted' = Artifact(vectorstore.docs)
    /\ saved' = TRUE
    /\ startup' = "built"
    /\ UNCHANGED <<csv_exists, df, artifact_found, vectorstore, batch_i,
                   app_vectorstore, reqs>>
    /\ UNCHANGED <<textVars, retrievalVars>>

\* FAISS.from_documents raises: logged and re-raised by create_or_load_faiss,
\* logged and re-raised by startup_event
EmbedBatchFails ==
    /\ startup = "building"
    /\ batch_i < Len(df)
    /\ embed_failed_at' = (batch_i \div batch_size) + 1
    /\ startup' = "failed"
    /\ UNCHANGED <<csv_exists, df, artifact_found, persisted, vectorstore, batch_i,
                   saved, app_vectorstore, reqs>>
    /\ UNCHANGED <<textVars, retrievalVars>>

\* after the loop: vectorstore.save_local, which raises on None (no documents)
\* and may raise on its own
SaveIndex ==
    /\ startup = "building"
    /\ batch_i >= Len(df)
    /\ \E ok \in BOOLEAN :
          IF vectorstore.set /\ ok
          THEN /\ persisted' = Artifact(vectorstore.docs)
               /\ saved' = TRUE
               /\ startup' = "built"
          ELSE /\ startup' = "failed"
               /\ UNCHANGED <<persisted, saved>>
    /\ UNCHANGED <<csv_exists, df, artifact_found, vectorstore, batch_i, embed_failed_at,
                   app_vectorstore, reqs>>
    /\ UNCHANGED <<textVars, retrievalVars>>

\* app.state.vectorstore = create_or_load_faiss(df, VSTORE_DIR)
StartupComplete ==
    /\ startup = "built"
    /\ app_vectorstore' = vectorstore
    /\ startup' = "ready"
    /\ UNCHANGED <<csv_exists, df, artifact_found, persisted, vectorstore, batch_i,
                   embed_failed_at, saved, reqs>>
    /\ UNCHANGED <<textVars, retrievalVars>>

Update(r, rec) ==
    /\ reqs' = [reqs EXCEPT ![r] = rec]
    /\ UNCHANGED <<csv_exists, df, artifact_found, persisted, startup, vectorstore,
                   batch_i, embed_failed_at, saved, app_vectorstore>>
    /\ UNCHANGED <<textVars, retrievalVars>>

\* Mutant of ChatReceive: the readiness test is missing.
ChatReceive_unchecked(r, q) ==
    /\ reqs[r].pc = "idle"
    /\ Update(r, [reqs[r] EXCEPT !.query = q, !.pc = "classify",
                                 !.ready_on_arrival = app_vectorstore.set])

\* chat() is entered: HTTPException(503) when app.state.vectorstore is None
ChatReceive(r, q) ==
    /\ reqs[r].pc = "idle"
    /\ IF ~app_vectorstore.set
       THEN Update(r, [reqs[r] EXCEPT !.query = q, !.pc = "rejected", !.status = 503,
                                      !.ready_on_arrival = FALSE])
       ELSE Update(r, [reqs[r] EXCEPT !.query = q, !.pc = "classify",
                                      !.ready_on_arrival = TRUE])

\* Mutant of ChatClassify: the search is run whatever the verdict.
ChatClassify_always_retrieve(r) ==
    /\ reqs[r].pc = "classify"
    /\ LET verdict == is_technical_query(reqs[r].query)
       IN  Update(r, [reqs[r] EXCEPT
               !.is_technical = IF verdict THEN "Technical" ELSE "Casual",
               !.pc = "retrieve",
               !.steps = Append(@, "classify")])

\* if is_technical_query(query)
ChatClassify(r) ==
    /\ reqs[r].pc = "classify"
    /\ LET verdict == is_technical_query(reqs[r].query)
       IN  Update(r, [reqs[r] EXCEPT
               !.is_technical = IF verdict THEN "Technical" ELSE "Casual",
               !.pc = IF verdict THEN "retrieve" ELSE "respond",
               !.steps = Append(@, "classify")])

\* retrieve_semantic up to the search: part numbers, search_k, similarity_search
ChatSearch(r) ==
    /\ reqs[r].pc = "retrieve"
    /\ LET mentioned_parts == _extract_part_numbers(reqs[r].query)
           found == similarity_search(app_vectorstore.docs,
                                      search_k(mentioned_parts, TOP_N_DOCS))
       IN  Update(r, [reqs[r] EXCEPT !.candidates = found, !.pc = "aggregate",
                                     !.steps = @ \o <<"extract", "search">>])

\* Mutant of ChatSearchFails: the failure is swallowed and the query is
\* answered as casual conversation.
ChatSearchFails_degraded(r) ==
    /\ reqs[r].pc = "retrieve"
    /\ Update(r, [reqs[r] EXCEPT !.pc = "respond", !.is_technical = "Casual",
                                 !.steps = @ \o <<"extract", "search_failed">>])

\* similarity_search raises (the embedding call failed): chat() catches it and
\* raises HTTPException(500)
ChatSearchFails(r) ==
    /\ reqs[r].pc = "retrieve"
    /\ Update(r, [reqs[r] EXCEPT !.pc = "failed", !.status = 500,
                                 !.steps = @ \o <<"extract", "search_failed">>])

\* the rest of retrieve_semantic: filter, loop, counters, returned dictionary
ChatAggregate(r) ==
    /\ reqs[r].pc = "aggregate"
    /\ Update(r, [reqs[r] EXCEPT
           !.agg = retrieve_semantic(reqs[r].query, app_vectorstore.docs, TOP_N_DOCS),
           !.pc = "respond",
           !.steps = Append(@, "aggregate")])

\* return StreamingResponse(stream_response(query, agg))
ChatRespond(r) ==
    /\ reqs[r].pc = "respond"
    /\ Update(r, [reqs[r] EXCEPT !.status = 200, !.pc = "prompt"])

\* stream_response up to the prompt: the query is classified a second time
\* (is_technical_query at its top), then the prompt is built
StreamPrompt(r) ==
    /\ reqs[r].pc = "prompt"
    /\ LET kind == choose_prompt(reqs[r].query, reqs[r].agg)
       IN  Update(r, [reqs[r] EXCEPT
               !.prompt = kind,
               !.context = IF kind = "analysis" THEN format_context_for_llm(reqs[r].agg)
                           ELSE PyNone,
               !.steps = IF kind = "analysis" THEN @ \o <<"classify", "format">>
                         ELSE Append(@, "classify"),
               !.pc = "generate"])

\* for token in llm.stream(prompt): yield token
StreamToken(r) ==
    /\ reqs[r].pc = "generate"
    /\ reqs[r].tokens < MaxTokens
    /\ Update(r, [reqs[r] EXCEPT !.tokens = @ + 1, !.steps = Append(@, "generate")])

\* the generator is exhausted
StreamEnd(r) ==
    /\ reqs[r].pc = "generate"
    /\ Update(r, [reqs[r] EXCEPT !.pc = "done"])

\* llm.stream raises, or the client closes the stream
StreamFails(r) ==
    /\ reqs[r].pc = "generate"
    /\ Update(r, [reqs[r] EXCEPT !.pc = "aborted"])

Init ==
    /\ query = <<>>
    /\ technical = "unset"
    /\ patterns = <<>>
    /\ extracted = FALSE
    /\ store = <<>>
    /\ top_n = TOP_N_DOCS
    /\ candidates = <<>>
    /\ results = <<>>
    /\ agg = PyNone
    /\ retrieved = FALSE
    /\ csv_exists \in BOOLEAN
    /\ df \in IF csv_exists THEN { Corpus(n) : n \in CorpusSizes } ELSE { <<>> }
    /\ artifact_found \in Artifacts
    /\ persisted = artifact_found
    /\ startup = "pending"
    /\ vectorstore = FaissNone
    /\ batch_i = 0
    /\ embed_failed_at = 0
    /\ saved = FALSE
    /\ app_vectorstore = FaissNone
    /\ reqs = [r \in 1..MaxRequests |-> IdleRequest]

Next ==
    \/ StartupCheckCsv
    \/ StartupLoadData
    \/ LoadIndex
    \/ EmbedBatch
    \/ EmbedBatchFails
    \/ SaveIndex
    \/ StartupComplete
    \/ \E r \in 1..MaxRequests, q \in ChatQueries : ChatReceive(r, q)
    \/ \E r \in 1..MaxRequests : ChatClassify(r)
    \/ \E r \in 1..MaxRequests : ChatSearch(r)
    \/ \E r \in 1..MaxRequests : ChatSearchFails(r)
    \/ \E r \in 1..MaxRequests : ChatAggregate(r)
    \/ \E r \in 1..MaxRequests : ChatRespond(r)
    \/ \E r \in 1..MaxRequests : StreamPrompt(r)
    \/ \E r \in 1..MaxRequests : StreamToken(r)
    \/ \E r \in 1..MaxRequests : StreamEnd(r)
    \/ \E r \in 1..MaxRequests : StreamFails(r)

Spec ==
    Init /\ [][Next]_vars

-----------------------------------------------------------------------------
(* Inputs of retrieve_semantic                                             *)

MaxHead == 4

MaxTopN == 1

MaxBulk == 11

RetrievalQueries ==
    { <<"f","i","x">>,
      <<"f","i","x"," ">> \o P1,
      P1_123 \o <<" ">> \o P2 }

TopNs ==
    (1..MaxTopN) \cup {TOP_N_DOCS}

\* every list of at most MaxHead of the five records
Heads ==
    UNION { [1..n -> 1..Len(METADATA)] : n \in 0..MaxHead }

\* m units of part P1, each recorded twice, the last c of them a third time
Bulk(m, c) ==
    [i \in 1..(2 * m + c) |->
        IF i <= m THEN Len(METADATA) + i
        ELSE IF i <= 2 * m THEN Len(METADATA) + (i - m)
        ELSE Len(METADATA) + (m - (i - 2 * m) + 1)]

Bulks ==
    { Bulk(m, c) : m \in (MaxBulk - 2)..MaxBulk, c \in 0..2 }

Stores ==
    Heads \cup { h \o b : h \in { x \in Heads : Len(x) <= 1 }, b \in Bulks }

-----------------------------------------------------------------------------
(* Specification of retrieve_semantic                                      *)

RetrievalIdle ==
    /\ store = <<>>
    /\ top_n = TOP_N_DOCS
    /\ candidates = <<>>
    /\ results = <<>>
    /\ agg = PyNone
    /\ retrieved = FALSE

RetrievalInit ==
    /\ query \in RetrievalQueries
    /\ technical = "unset"
    /\ patterns = <<>>
    /\ extracted = FALSE
    /\ store \in Stores
    /\ top_n \in TopNs
    /\ candidates = <<>>
    /\ results = <<>>
    /\ agg = PyNone
    /\ retrieved = FALSE
    /\ ServerIdle

RetrieveSemantic ==
    /\ ~retrieved
    /\ LET mentioned_parts == _extract_part_numbers(query)
           found == similarity_search(store, search_k(mentioned_parts, top_n))
       IN  /\ patterns' = mentioned_parts
           /\ extracted' = TRUE
           /\ candidates' = found
           /\ results' = IF found = <<>> THEN <<>>
                         ELSE select_results(found, mentioned_parts, top_n)
    /\ agg' = retrieve_semantic(query, store, top_n)
    /\ retrieved' = TRUE
    /\ UNCHANGED <<query, technical, store, top_n, serverVars>>

RetrievalNext ==
    RetrieveSemantic

SpecRetrieval ==
    RetrievalInit /\ [][RetrievalNext]_vars

-----------------------------------------------------------------------------
(* Query texts: concatenations of at most MaxPieces pieces                 *)

MaxPieces == 4

Pieces ==
    { <<"1","0","0","0","3","9","3">>,
      <<"1","2","3">>,
      <<"1","2">>,
      <<"-">>,
      <<" ">>,
      <<" ","q">>,
      <<"f","i","x">>,
      <<"F","I","X">> }

RECURSIVE Concat(_)
Concat(ps) ==
    IF ps = <<>> THEN <<>> ELSE Head(ps) \o Concat(Tail(ps))

Queries ==
    { Concat(ps) : ps \in UNION { [1..n -> Pieces] : n \in 0..MaxPieces } }

-----------------------------------------------------------------------------
(* Specification of the two pure text functions                            *)

TextIdle ==
    /\ query = <<>>
    /\ technical = "unset"
    /\ patterns = <<>>
    /\ extracted = FALSE

TextInit ==
    /\ query \in Queries
    /\ technical = "unset"
    /\ patterns = <<>>
    /\ extracted = FALSE
    /\ RetrievalIdle
    /\ ServerIdle

Classify ==
    /\ technical = "unset"
    /\ technical' = IF is_technical_query(query) THEN "Technical" ELSE "Casual"
    /\ UNCHANGED <<query, patterns, extracted, retrievalVars, serverVars>>

ExtractPartNumbers ==
    /\ ~extracted
    /\ patterns' = _extract_part_numbers(query)
    /\ extracted' = TRUE
    /\ UNCHANGED <<query, technical, retrievalVars, serverVars>>

TextNext ==
    \/ Classify
    \/ ExtractPartNumbers

SpecText ==
    TextInit /\ [][TextNext]_vars

-----------------------------------------------------------------------------
(* Specification of stream_response called on its own                      *)

\* indexes whose search gives one to three candidates
StreamStores ==
    { <<1>>, <<1, 2>>, <<3, 4, 5>>, <<1, 1, 2>> }

\* the values of the argument agg for the query q: None (the default), the
\* empty dictionary, the dictionary retrieve_semantic returns for zero
\* candidates, a result whose retrieved_count is 0, and results of
\* retrieve_semantic over documents
StreamAggs(q) ==
    { PyNone, <<>>, no_results(q),
      [retrieve_semantic(q, <<1>>, TOP_N_DOCS) EXCEPT !.retrieved_count = 0] }
        \cup { retrieve_semantic(q, s, TOP_N_DOCS) : s \in StreamStores }

StreamInit ==
    /\ TextIdle
    /\ RetrievalIdle
    /\ csv_exists = FALSE
    /\ df = <<>>
    /\ artifact_found = NoArtifact
    /\ persisted = NoArtifact
    /\ startup = "pending"
    /\ vectorstore = FaissNone
    /\ batch_i = 0
    /\ embed_failed_at = 0
    /\ saved = FALSE
    /\ app_vectorstore = FaissNone
    /\ \E q \in ChatQueries : \E d \in StreamAggs(q) :
          reqs = <<[IdleRequest EXCEPT !.pc = "prompt", !.query = q, !.agg = d]>>

StreamNext ==
    \/ StreamPrompt(1)
    \/ StreamToken(1)
    \/ StreamEnd(1)
    \/ StreamFails(1)

SpecStream ==
    StreamInit /\ [][StreamNext]_vars

-----------------------------------------------------------------------------
(* Properties of the classifier and of the extractor (SpecText)            *)

\* the pairs {lower-case letter, its upper-case form}
CasePairs ==
    { {LOWER[i], UPPER[i]} : i \in DOMAIN LOWER }

\* a and b are the same character up to letter case
SameLetter(a, b) ==
    a = b \/ {a, b} \in CasePairs

\* q contains some technical keyword, in any letter case
MentionsKeyword(q) ==
    \E k \in TECHNICAL_KEYWORDS : \E p \in 0..(Len(q) - Len(k)) :
        \A j \in 1..Len(k) : SameLetter(q[p + j], k[j])

HasUpperCase(q) ==
    \E i \in DOMAIN q : q[i] \in Range(UPPER)

\* number of whitespace-delimited tokens: the positions where a token starts
TokenCount(q) ==
    Cardinality({ i \in DOMAIN q : ~IsSpace(q[i]) /\ (i = 1 \/ IsSpace(q[i - 1])) })

\* a maximal run of digits starts at index i
RunStart(q, i) ==
    IsDigit(q[i]) /\ (i = 1 \/ ~IsDigit(q[i - 1]))

\* index of the last digit of the maximal run that starts at i
RunEnd(q, i) ==
    CHOOSE j \in i..Len(q) :
        /\ \A k \in i..j : IsDigit(q[k])
        /\ (j = Len(q) \/ ~IsDigit(q[j + 1]))

\* the maximal digit run at i has lo..hi digits and touches no letter, digit
\* or underscore on either side
DelimitedRun(q, i, lo, hi) ==
    /\ RunStart(q, i)
    /\ i = 1 \/ ~IsWord(q[i - 1])
    /\ LET j == RunEnd(q, i)
       IN  /\ j - i + 1 \in lo..hi
           /\ j = Len(q) \/ ~IsWord(q[j + 1])

\* q holds a numeric code: a delimited run of 3 to 10 digits
HasCodeShape(q) ==
    \E i \in DOMAIN q : DelimitedRun(q, i, 3, 10)

\* q holds "station" (any case), optional whitespace, then a digit
HasStationShape(q) ==
    \E p \in 0..(Len(q) - 7) :
        /\ \A j \in 1..7 : SameLetter(q[p + j], STATION[j])
        /\ \E d \in (p + 8)..Len(q) :
              IsDigit(q[d]) /\ \A i \in (p + 8)..(d - 1) : IsSpace(q[i])

\* the part number that starts at a delimited run: the run, with "-ddd" when
\* that suffix follows and is itself delimited
PartAt(q, i) ==
    LET j == RunEnd(q, i)
        suffix == /\ j + 4 <= Len(q)
                  /\ q[j + 1] = "-"
                  /\ \A k \in (j + 2)..(j + 4) : IsDigit(q[k])
                  /\ (j + 4 = Len(q) \/ ~IsWord(q[j + 5]))
    IN  IF suffix THEN SubSeq(q, i, j + 4) ELSE SubSeq(q, i, j)

RECURSIVE Ascending(_)
\* the elements of a finite set of integers, smallest first
Ascending(S) ==
    IF S = {} THEN <<>>
    ELSE LET m == CHOOSE x \in S : \A y \in S : x <= y
         IN  <<m>> \o Ascending(S \ {m})

\* the delimited part numbers of q in order of appearance
DelimitedParts(q) ==
    LET starts == Ascending({ i \in DOMAIN q : DelimitedRun(q, i, 7, 10) })
    IN  [n \in DOMAIN starts |-> PartAt(q, starts[n])]

RECURSIVE UndelimitedParts(_, _)
\* leftmost non-overlapping occurrences of "7 to 10 digits, optionally '-' and
\* 3 digits" from offset p on, with no condition on the neighbouring characters
UndelimitedParts(q, p) ==
    IF p >= Len(q) THEN <<>>
    ELSE LET ns == { n \in 7..10 : DigitsFrom(q, p, n) }
         IN  IF ns = {} THEN UndelimitedParts(q, p + 1)
             ELSE LET n == CHOOSE x \in ns : \A y \in ns : y <= x
                      e == IF SuffixAt(q, p + n) THEN p + n + 4 ELSE p + n
                  IN  <<SubSeq(q, p + 1, e)>> \o UndelimitedParts(q, e)

\* C8: every query that contains a technical keyword, in any letter case, is
\* classified Technical, whatever its number of tokens.
C8_KeywordIsTechnical ==
    (technical # "unset" /\ MentionsKeyword(query)) => technical = "Technical"

\* C8 witness: an upper-case keyword in a query of three tokens, classified.
C8_Witness ==
    /\ technical = "Technical"
    /\ MentionsKeyword(query)
    /\ HasUpperCase(query)
    /\ ~HasCodeShape(query)
    /\ TokenCount(query) >= 3

\* C9: a query of fewer than 3 tokens (zero included) with no technical
\* keyword, no numeric code and no station reference is classified Casual.
C9_ShortPlainIsCasual ==
    ( /\ technical # "unset"
      /\ TokenCount(query) < 3
      /\ ~MentionsKeyword(query)
      /\ ~HasCodeShape(query)
      /\ ~HasStationShape(query) ) => technical = "Casual"

\* C9 witness: a non-empty query of zero tokens, classified Casual.
C9_Witness ==
    /\ technical = "Casual"
    /\ TokenCount(query) = 0
    /\ Len(query) > 0

\* C10 as amended: the extractor returns, in order of appearance and with
\* duplicates kept, exactly the runs of 7 to 10 digits (with "-ddd" when it
\* follows) that are delimited: no letter, digit or underscore touches the
\* match on either side.
C10_DelimitedPartNumbers ==
    extracted => patterns = DelimitedParts(query)

\* C10 witness: two different part numbers extracted, in order of appearance.
C10_Witness ==
    /\ extracted
    /\ Len(patterns) = 2
    /\ patterns[1] # patterns[2]
    /\ Len(patterns[1]) < Len(patterns[2])

\* C10 as claimed: the extractor returns all non-overlapping occurrences of
\* 7 to 10 digits optionally followed by "-" and 3 digits, and nothing else.
C10_AllDigitRuns ==
    extracted => patterns = UndelimitedParts(query, 0)

-----------------------------------------------------------------------------
(* Properties of retrieve_semantic (SpecRetrieval)                         *)

HasField(d, f) ==
    f \in DOMAIN d

\* a category's explicit "not found" marker: the single entry {note: ...}
IsMarker(list) ==
    Len(list) = 1 /\ HasField(list[1], "note")

\* the counted entries of a category: none when it holds the marker
Entries(list) ==
    IF list = <<>> THEN <<>>
    ELSE IF HasField(list[1], "note") THEN <<>>
    ELSE list

ListCategories ==
    {"action_codes", "failure_codes", "materials", "recurring_serials", "common_stations"}

NotAvailable ==
    [earliest |-> N_A, latest |-> N_A]

\* index of the first candidate that carries value v
FirstIndex(values, v) ==
    CHOOSE i \in DOMAIN values : values[i] = v /\ \A j \in 1..(i - 1) : values[j] # v

\* a ranks before b: more occurrences, or as many and first seen earlier
RanksBefore(values, a, b) ==
    \/ Count(values, a) > Count(values, b)
    \/ /\ Count(values, a) = Count(values, b)
       /\ FirstIndex(values, a) < FirstIndex(values, b)

Smaller(a, b) ==
    IF a < b THEN a ELSE b

\* `list` is the top-k of `values` by descending count, the value first seen
\* earlier ranking higher among equal counts; `key` names the entries' value
RankedTop(list, key, values, k) ==
    LET e == Entries(list)
        listed == { e[i][key] : i \in DOMAIN e }
    IN  /\ Len(e) = Smaller(k, Cardinality(Range(values)))
        /\ \A i \in DOMAIN e :
              e[i][key] \in Range(values) /\ e[i].count = Count(values, e[i][key])
        /\ \A i, j \in DOMAIN e : i < j => RanksBefore(values, e[i][key], e[j][key])
        /\ \A v \in Range(values) \ listed :
              \A i \in DOMAIN e : RanksBefore(values, e[i][key], v)

\* a value left out by the truncation although it occurs as often as the
\* last value kept
CutBetweenTies(list, key, values) ==
    LET e == Entries(list)
    IN  /\ e # <<>>
        /\ \E v \in Range(values) :
              /\ \A i \in DOMAIN e : e[i][key] # v
              /\ Count(values, v) = e[Len(e)].count

\* C1 as claimed: when the search returns no candidate, the result holds
\* retrieved_count = 0 and every category as its explicit "not found" marker.
C1_ZeroCandidatesMarkers ==
    (retrieved /\ candidates = <<>>) =>
        /\ HasField(agg, "retrieved_count") /\ agg.retrieved_count = 0
        /\ \A f \in ListCategories : HasField(agg, f) /\ IsMarker(agg[f])
        /\ HasField(agg, "date_range") /\ agg.date_range = NotAvailable

\* C2 as claimed: for a non-empty candidate set every category is present in
\* the result, and a category without entries holds a marker, never an empty
\* list.
C2_EveryCategoryPresent ==
    (retrieved /\ candidates # <<>>) =>
        /\ \A f \in ListCategories : HasField(agg, f) /\ agg[f] # <<>>
        /\ HasField(agg, "date_range")

\* C3: recurring_serials never holds an entry of count 1: it is the distinct
\* present serials seen in 2 or more of the aggregated candidates, by
\* descending count, cut to the 10 highest; filtering before the cut gives
\* the same list as the cut before the filter.
C3_RecurringSerials ==
    (retrieved /\ candidates # <<>>) =>
        LET serials == Collected(results, "serialnumber")
            rec     == Entries(agg.recurring_serials)
            twice   == { v \in Range(serials) : Count(serials, v) >= 2 }
            listed  == { rec[i].serial : i \in DOMAIN rec }
            first   == Prefix(SelectSeq(SortedDesc(Counter(serials)), IsRecurring), TOP_SERIALS)
        IN  /\ \A i \in DOMAIN rec : rec[i].count # 1
            /\ \A i \in DOMAIN rec :
                  rec[i].serial \in twice /\ rec[i].count = Count(serials, rec[i].serial)
            /\ \A i, j \in DOMAIN rec :
                  i < j => rec[i].serial # rec[j].serial /\ rec[i].count >= rec[j].count
            /\ Len(rec) = Smaller(TOP_SERIALS, Cardinality(twice))
            /\ \A v \in twice \ listed : \A i \in DOMAIN rec : rec[i].count >= Count(serials, v)
            /\ rec = [i \in DOMAIN first |-> [serial |-> first[i].key, count |-> first[i].count]]

\* C3 witness: more than 10 recurring serials of different counts and a
\* serial seen once; 10 are listed.
C3_Witness ==
    /\ retrieved
    /\ LET serials == Collected(results, "serialnumber")
           rec     == Entries(agg.recurring_serials)
       IN  /\ Cardinality({ v \in Range(serials) : Count(serials, v) >= 2 }) > TOP_SERIALS
           /\ \E v \in Range(serials) : Count(serials, v) = 1
           /\ Len(rec) = TOP_SERIALS
           /\ rec[1].count > rec[Len(rec)].count

\* C4: the action-code, failure-code, material and station lists are ranked
\* by descending count, the value first seen earlier ranking higher among
\* equal counts, also where the cut to the top K falls between equal counts.
C4_StableRanking ==
    (retrieved /\ candidates # <<>>) =>
        /\ RankedTop(agg.action_codes, "code", Collected(results, "action_code"), TOP_K)
        /\ RankedTop(agg.failure_codes, "code", Collected(results, "failure_code"), TOP_K)
        /\ RankedTop(agg.materials, "code", Collected(results, "material_code"), TOP_K)
        /\ RankedTop(agg.common_stations, "station",
                     Collected(results, "stationnumber"), TOP_STATIONS)

\* C4 witness: action codes first seen in the order B, A, ... with equal
\* counts, and the cut to the top K drops a code of the same count.
C4_Witness ==
    /\ retrieved
    /\ candidates # <<>>
    /\ LET e == Entries(agg.action_codes)
       IN  /\ Len(e) = TOP_K
           /\ e[1].code = <<"B">> /\ e[2].code = <<"A">>
           /\ e[1].count = e[2].count
           /\ CutBetweenTies(agg.action_codes, "code", Collected(results, "action_code"))

\* the candidate's part number contains a part number mentioned in q
MentionsPartOf(doc, q) ==
    LET parts == DelimitedParts(q)
    IN  /\ Metadata(doc).part_number # NA
        /\ \E i \in DOMAIN parts : Contains(Metadata(doc).part_number, parts[i])

MatchingCandidates ==
    LET parts == DelimitedParts(query)
        Matching(doc) ==
            /\ Metadata(doc).part_number # NA
            /\ \E i \in DOMAIN parts : Contains(Metadata(doc).part_number, parts[i])
    IN  SelectSeq(candidates, Matching)

\* C5: with part numbers mentioned and at least one candidate found, the
\* candidates aggregated are exactly those whose part number contains a
\* mentioned one, when there is any (retrieved_count is their number and
\* mentioned_parts the extracted list); otherwise they are the first top_n
\* candidates, and a result is returned all the same.
C5_PartNumberFilter ==
    (retrieved /\ candidates # <<>> /\ DelimitedParts(query) # <<>>) =>
        LET parts    == DelimitedParts(query)
            matching == MatchingCandidates
            expected == IF matching # <<>> THEN matching ELSE Prefix(candidates, top_n)
        IN  /\ results = expected
            /\ HasField(agg, "retrieved_count") /\ agg.retrieved_count = Len(expected)
            /\ agg.mentioned_parts = parts
            /\ agg = aggregate(query, parts, expected)

\* C5 witness: the filter keeps some candidates and drops others, one kept
\* candidate's part number is longer than the mentioned one, and more than
\* top_n candidates are aggregated.
C5_Witness ==
    /\ retrieved
    /\ DelimitedParts(query) # <<>>
    /\ MatchingCandidates # <<>>
    /\ Len(MatchingCandidates) < Len(candidates)
    /\ results = MatchingCandidates
    /\ Len(results) > top_n
    /\ \E i \in DOMAIN results :
          Metadata(results[i]).part_number \notin Range(DelimitedParts(query))

-----------------------------------------------------------------------------
(* Properties of startup and of the /chat handler (Spec)                   *)

\* C6: a request that arrives while app.state.vectorstore is unset is
\* answered 503 at once and goes no further, and nothing is classified,
\* searched or generated for any request while the index is unset.
C6_NotReadyFailsFast ==
    \A r \in DOMAIN reqs :
        /\ (reqs[r].pc # "idle" /\ ~reqs[r].ready_on_arrival) =>
              /\ reqs[r].pc = "rejected"
              /\ reqs[r].status = 503
              /\ reqs[r].is_technical = "unset"
              /\ reqs[r].steps = <<>>
              /\ reqs[r].tokens = 0
        /\ reqs[r].steps # <<>> => app_vectorstore.set

\* C6 witness: a request was answered 503 while the build has merged a first
\* batch and the served index is still unset.
C6_Witness ==
    \E r \in DOMAIN reqs :
        /\ reqs[r].status = 503
        /\ startup = "building"
        /\ vectorstore.set
        /\ ~app_vectorstore.set

\* C7: when the embedding of any batch fails, startup fails, the served index
\* stays unset and nothing was written to the persist path; the index is
\* written only once every batch has been embedded and merged.
C7_EmbedFailureIsFatal ==
    /\ embed_failed_at > 0 =>
          /\ startup = "failed"
          /\ ~app_vectorstore.set
          /\ ~saved
          /\ persisted = artifact_found
    /\ saved =>
          /\ embed_failed_at = 0
          /\ batch_i >= Len(df)
          /\ vectorstore = FAISS(df)
          /\ persisted = Artifact(df)

\* C7 witness: the embedding failed on a later batch, after a first batch had
\* been merged, and nothing is on disk.
C7_Witness ==
    /\ embed_failed_at > 1
    /\ startup = "failed"
    /\ vectorstore.set
    /\ ~persisted.exists

\* C11: when the search of a Technical query fails, the request ends as a
\* failure answered to the caller (500): it has no aggregation result, no
\* prompt and no token, and it is still classified Technical.
C11_SearchFailureSurfaces ==
    \A r \in DOMAIN reqs :
        (\E i \in DOMAIN reqs[r].steps : reqs[r].steps[i] = "search_failed") =>
            /\ reqs[r].pc = "failed"
            /\ reqs[r].status = 500
            /\ reqs[r].is_technical = "Technical"
            /\ reqs[r].agg = PyNone
            /\ reqs[r].prompt = "none"
            /\ reqs[r].context = PyNone
            /\ reqs[r].tokens = 0
            /\ \A i \in DOMAIN reqs[r].steps :
                   reqs[r].steps[i] \notin {"aggregate", "format", "generate"}

\* C11 witness: a Technical query whose search failed was answered 500 by a
\* server whose index is ready.
C11_Witness ==
    \E r \in DOMAIN reqs :
        /\ reqs[r].status = 500
        /\ reqs[r].pc = "failed"
        /\ is_technical_query(reqs[r].query)
        /\ app_vectorstore.set
        /\ reqs[r].steps = <<"classify", "extract", "search_failed">>

-----------------------------------------------------------------------------
(* Properties of the sentinel values in aggregation (SpecRetrieval)        *)

\* a value the aggregation is to treat as absent: null, the empty string, or
\* the text "nan" in any letter case
IsSentinel(v) ==
    \/ v = NA
    \/ v = <<>>
    \/ /\ Len(v) = 3
       /\ SameLetter(v[1], "n") /\ SameLetter(v[2], "a") /\ SameLetter(v[3], "n")

\* the metadata field a category is counted from
FieldOf(category) ==
    CASE category = "action_codes"      -> "action_code"
      [] category = "failure_codes"     -> "failure_code"
      [] category = "materials"         -> "material_code"
      [] category = "recurring_serials" -> "serialnumber"
      [] category = "common_stations"   -> "stationnumber"

\* the key of an entry of a category
KeyOf(category, entry) ==
    CASE category = "recurring_serials" -> entry.serial
      [] category = "common_stations"   -> entry.station
      [] OTHER                          -> entry.code

\* how many of the documents carry the value `key` in `field`, absent values
\* not counted
Sightings(docs, field, key) ==
    Cardinality({ i \in DOMAIN docs :
                    /\ ~IsSentinel(Metadata(docs[i])[field])
                    /\ Strip(Metadata(docs[i])[field]) = key })

\* the dates of the documents that have one
PresentDates(docs) ==
    { Strip(Metadata(docs[i]).date) :
        i \in { j \in DOMAIN docs : ~IsSentinel(Metadata(docs[j]).date) } }

\* C12: no entry of any category has null, the empty string or "nan" (in any
\* letter case) as its key, every count is the number of aggregated documents
\* that carry the key, and the date range is taken from present dates only.
C12_SentinelsAbsent ==
    (retrieved /\ results # <<>>) =>
        /\ \A c \in ListCategories : \A i \in DOMAIN Entries(agg[c]) :
              LET entry == Entries(agg[c])[i]
              IN  /\ ~IsSentinel(KeyOf(c, entry))
                  /\ entry.count = Sightings(results, FieldOf(c), KeyOf(c, entry))
        /\ ~IsSentinel(agg.date_range.earliest)
        /\ ~IsSentinel(agg.date_range.latest)
        /\ {agg.date_range.earliest, agg.date_range.latest}
              \subseteq (PresentDates(results) \cup {N_A})

-----------------------------------------------------------------------------
(* Properties of the order of steps within a request (Spec)                *)

\* the place of a step in the pipeline
StepRank(step) ==
    CASE step = "classify"      -> 1
      [] step = "extract"       -> 2
      [] step = "search"        -> 3
      [] step = "search_failed" -> 3
      [] step = "aggregate"     -> 4
      [] step = "format"        -> 5
      [] step = "generate"      -> 6

\* some step before position j of st is `step`
RanBefore(st, j, step) ==
    \E i \in DOMAIN st : i < j /\ st[i] = step

\* C13: within a request the steps run in the order classification,
\* extraction and search, aggregation, formatting, generation.  A request
\* starts with the classification; no step runs after a later step of the
\* pipeline, except that stream_response classifies the query once more just
\* before it formats and generates; a query classified Casual is never
\* searched or aggregated; formatting, and the generation for a Technical
\* query, come after the aggregation of that request.
C13_StepOrder ==
    \A r \in DOMAIN reqs :
        LET st == reqs[r].steps
        IN  /\ st # <<>> => st[1] = "classify"
            /\ \A i, j \in DOMAIN st :
                  (i < j /\ st[j] # "classify") => StepRank(st[i]) <= StepRank(st[j])
            /\ \A i, j \in DOMAIN st :
                  (1 < i /\ i < j /\ st[i] = "classify") => st[j] \in {"format", "generate"}
            /\ reqs[r].is_technical = "Casual" =>
                  \A j \in DOMAIN st : st[j] \in {"classify", "generate"}
            /\ \A j \in DOMAIN st :
                  /\ st[j] \in {"extract", "search", "search_failed"} =>
                        /\ reqs[r].is_technical = "Technical"
                        /\ is_technical_query(reqs[r].query)
                  /\ st[j] = "aggregate" => RanBefore(st, j, "search")
                  /\ st[j] = "format" =>
                        RanBefore(st, j, "aggregate") /\ reqs[r].agg # PyNone
                  /\ (st[j] = "generate" /\ reqs[r].is_technical = "Technical") =>
                        RanBefore(st, j, "aggregate")

\* C13 witness: a Technical request has gone through every step, and its
\* response was built from the aggregation of documents.
C13_Witness ==
    \E r \in DOMAIN reqs :
        /\ reqs[r].steps = <<"classify", "extract", "search", "aggregate",
                             "classify", "format", "generate">>
        /\ reqs[r].agg.retrieved_count > 0
        /\ reqs[r].pc = "done"

-----------------------------------------------------------------------------
(* Properties of the prompt stream_response builds (SpecStream)            *)

\* the result carries a retrieved_count above 0
HasRetrieved(d) ==
    /\ d # PyNone
    /\ "retrieved_count" \in DOMAIN d
    /\ d.retrieved_count > 0

\* C14: stream_response builds exactly one of three prompts.  The
\* data-analysis prompt, with the formatted context, is built exactly when the
\* query is Technical and the result has retrieved_count > 0; a Technical
\* query whose result is missing, empty, or has retrieved_count 0 or none
\* gets the request for details; every other query gets the casual prompt.
\* The result of a zero-candidate retrieval never gets the data-analysis
\* prompt.
C14_PromptChoice ==
    \A r \in DOMAIN reqs :
        reqs[r].prompt # "none" =>
            LET tech == is_technical_query(reqs[r].query)
                d    == reqs[r].agg
            IN  /\ reqs[r].prompt \in {"analysis", "clarify", "casual"}
                /\ reqs[r].prompt = "analysis" <=> (tech /\ HasRetrieved(d))
                /\ reqs[r].prompt = "clarify" <=> (tech /\ ~HasRetrieved(d))
                /\ reqs[r].prompt = "casual" <=> ~tech
                /\ reqs[r].context # PyNone <=> reqs[r].prompt = "analysis"
                /\ reqs[r].prompt = "analysis" =>
                      reqs[r].context.analyzed = d.retrieved_count
                /\ (tech /\ d = no_results(reqs[r].query)) =>
                      reqs[r].prompt = "clarify"

\* C14 witness: a Technical query given the result of a zero-candidate
\* retrieval got the request for details, and a token was generated from it.
C14_Witness ==
    \E r \in DOMAIN reqs :
        /\ is_technical_query(reqs[r].query)
        /\ reqs[r].agg = no_results(reqs[r].query)
        /\ reqs[r].prompt = "clarify"
        /\ reqs[r].tokens > 0

-----------------------------------------------------------------------------
(* Properties of retrieved_count (SpecRetrieval)                           *)

\* the size of the search: 3 x top_n with part numbers mentioned, else 2 x
SearchSize ==
    IF DelimitedParts(query) # <<>> THEN 3 * top_n ELSE 2 * top_n

\* C15: with at least one candidate found, retrieved_count is between 1 and
\* the search size; it exceeds top_n only when part numbers are mentioned and
\* the filter matched some candidate; and no count of any category exceeds
\* retrieved_count.
C15_RetrievedCountBounds ==
    (retrieved /\ candidates # <<>>) =>
        /\ HasField(agg, "retrieved_count")
        /\ agg.retrieved_count = Len(results)
        /\ 1 <= agg.retrieved_count
        /\ agg.retrieved_count <= SearchSize
        /\ agg.retrieved_count > top_n =>
              (DelimitedParts(query) # <<>> /\ MatchingCandidates # <<>>)
        /\ \A c \in ListCategories : \A i \in DOMAIN Entries(agg[c]) :
              /\ 1 <= Entries(agg[c])[i].count
              /\ Entries(agg[c])[i].count <= agg.retrieved_count

\* C15 witness: the filter matched and left the whole search, 3 x top_n
\* candidates, untruncated, and one action code was seen in more than top_n
\* of them.
C15_Witness ==
    /\ retrieved
    /\ MatchingCandidates # <<>>
    /\ agg.retrieved_count = 3 * top_n
    /\ agg.retrieved_count > top_n
    /\ \E i \in DOMAIN Entries(agg.action_codes) :
          Entries(agg.action_codes)[i].count > top_n

=============================================================================
